---- MODULE Spec2Model ----
(***************************************************************************)
(* Model of the Telethon relay service (src/app.py): the Credential Record *)
(* kept in a local file and mirrored to a remote backup, and the HTTP      *)
(* handlers that read and write it.                                        *)
(*                                                                         *)
(* A record is a function from Keys to strings, with "" for a key the      *)
(* Python dict does not hold: Get is dict.get(k, ''), Put is d[k] = v, Pop *)
(* is d.pop(k, None).  The local file and the remote backup hold <<>> (no  *)
(* file / nothing saved) or <<record>>.                                    *)
(*                                                                         *)
(* A session blob (StringSession text) stands for an authorization key     *)
(* together with the login state the platform holds for that key at the    *)
(* time client.session.save() was called: "T_..." a code login in          *)
(* progress, "Q_..." a QR login in progress, "A_..." an authorized key.    *)
(* The platform and the backup endpoint are collaborators: what they       *)
(* answer to one request is an input of the handler's action.              *)
(***************************************************************************)
EXTENDS Naturals, Sequences, FiniteSets, TLC

VARIABLES
    file,                   \* SESSION_FILE: <<>> (no file) or <<record>>
    remote,                 \* what the backup endpoint holds, <<>> or <<record>>,
                            \* as long as the process may still pull it
    pa_restore_attempted,   \* _pa_restore_attempted
    RELAY_SECRET,           \* the configured secret (fixed for the process)
    pulls,                  \* queries sent to the backup endpoint so far
    req,                    \* the last request: operation and inputs (ans: what
                            \* the platform answered to it)
    resp,                   \* the last response
    loaded,                 \* what /health's _load_session() returned
    opened,                 \* connections the last request opened
    released,               \* connections the last request closed again
    secret_ok,              \* did the last request carry the configured secret?
    pushed,                 \* backup threads the last request started
    saved,                  \* _save_session calls of the last request
    pushing,                \* records of the backup threads still running
    pa_slow,                \* the backup endpoint is slow: a backup thread
                            \* outlives the request that started it
    pulled,                 \* how the last request's pull went: "none" (no pull
                            \* sent), "unreachable", "answered"
    inflight                \* the requests being handled by two threads at
                            \* once: where each stands, and its local variables

vars == <<file, remote, pa_restore_attempted, RELAY_SECRET, pulls,
          req, resp, loaded, opened, released, secret_ok, pushed, saved,
          pushing, pa_slow, pulled, inflight>>

\* ---------------------------------------------------------------- bounds

\* The pull counter saturates here.
MaxPulls == 2

\* Backup threads running at a time; a request that would start more has to
\* wait for one to end.
MaxPushing == 2

\* ------------------------------------------------------- python dict model

\* The code reads a field only with dict.get(k, '') or by truth value, so a
\* missing key and an empty value are the same to it: a record is a
\* function on Keys, with "" for a key the dict does not hold.
Keys == {"api_id", "api_hash", "phone", "session",
         "temp_session", "phone_code_hash", "qr_temp_session"}

EmptyRec == [k \in Keys |-> ""]

\* data.get(k, '')
Get(d, k) == d[k]

\* data[k] = v
Put(d, k, v) == [d EXCEPT ![k] = v]

\* data.pop(k, None)
Pop(d, k) == [d EXCEPT ![k] = ""]

\* A record given by the fields it holds.
Rec(api_id, api_hash, phone, session, temp_session, phone_code_hash) ==
    [k \in Keys |->
        CASE k = "api_id" -> api_id
          [] k = "api_hash" -> api_hash
          [] k = "phone" -> phone
          [] k = "session" -> session
          [] k = "temp_session" -> temp_session
          [] k = "phone_code_hash" -> phone_code_hash
          [] OTHER -> ""]

\* ------------------------------------------------------------ value sets

DefaultSecret == "change-me-in-production"

Secrets == {DefaultSecret, "k1"}

\* relay_secret carried by a request ("" when absent)
Tokens == {"", DefaultSecret, "k1"}

\* (api_id, api_hash) pairs a caller submits; "x" is not a number, "" is missing
CredInputs == {<<"2", "h2">>, <<"x", "h1">>, <<"", "h1">>}

PhoneInputs == {"+1", ""}

\* get_me().phone: the phone of the authorized identity
MePhone == "+7"

\* session_string inputs of /import-session: an authorized key, a key the
\* platform does not know, nothing
ImportInputs == {"A_imp", "X_bad", ""}

\* Session blobs of authorized keys: the one a previous process left, an
\* imported one, one a login of this process produced.
AuthBlobs == {"A_old", "A_imp", "A_new"}

\* Records a previous process may have left in the local file: none,
\* credentials only, a code login in progress, a connected account.
InitFiles ==
    { <<>>,
      << Rec("1", "h1", "+1", "", "", "") >>,
      << Rec("1", "h1", "+1", "", "T_sent", "h_new") >>,
      << Rec("1", "h1", "+1", "A_old", "", "") >> }

\* What the backup endpoint may hold from a previous process: nothing, or a
\* record that had a session when it was pushed.
InitRemotes ==
    { <<>>, << Rec("1", "h1", "+1", "A_old", "", "") >> }

\* ------------------------------------------------- PA backup (lines 55-100)

BackupEnabled(secret) == secret # DefaultSecret

\* Variant: the pulled record comes back without its phone.
PullSessionFromPa_DropsPhone(secret, rem, net) ==
    IF ~BackupEnabled(secret) THEN <<>>
    ELSE IF ~net THEN <<>>
    ELSE IF rem # <<>> /\ Get(rem[1], "session") # "" THEN <<Pop(rem[1], "phone")>>
    ELSE <<>>

\* _pull_session_from_pa: None (<<>>) when disabled, when the request fails
\* (net = FALSE) or when the body holds no record with a session.
PullSessionFromPa(secret, rem, net) ==
    IF ~BackupEnabled(secret) THEN <<>>
    ELSE IF ~net THEN <<>>
    ELSE IF rem # <<>> /\ Get(rem[1], "session") # "" THEN rem
    ELSE <<>>

\* Does _pull_session_from_pa send a request at all?
PullQueries(secret) == IF BackupEnabled(secret) THEN 1 ELSE 0

\* How a call of _pull_session_from_pa went: no request sent, the request
\* raised, the endpoint answered.
PullOutcome(secret, net) ==
    IF ~BackupEnabled(secret) THEN "none"
    ELSE IF net THEN "answered" ELSE "unreachable"

\* _push_session_to_pa run by a backup thread: what the endpoint holds
\* afterwards; net: the request arrives (a failed one is only logged, lines
\* 72-74, and leaves the endpoint as it was).
PushSessionToPa(secret, rem, data, net) ==
    IF BackupEnabled(secret) /\ net THEN <<data>> ELSE rem

\* ------------------------------------------ local load / save (105-155)

\* The store as one request sees it while it runs.
Store == [file |-> file, remote |-> remote, attempted |-> pa_restore_attempted,
          queries |-> 0, pushed |-> 0, saved |-> 0, pushing |-> pushing,
          pulled |-> "none"]

\* Variant: the once-per-process guard is ignored.
PullDue_Always(attempted) == TRUE

\* Does _load_session consult the backup (line 120)?
PullDue(attempted) == ~attempted

\* Variant: a local record without session is kept ahead of the backup's.
LoadSession_KeepsPartial(s, net) ==
    IF s.file # <<>> /\ Get(s.file[1], "session") # ""
    THEN [st |-> s, data |-> s.file[1]]
    ELSE LET due == PullDue(s.attempted)
             pa  == IF due THEN PullSessionFromPa(RELAY_SECRET, s.remote, net)
                    ELSE <<>>
             q   == IF due THEN PullQueries(RELAY_SECRET) ELSE 0
             s2  == [s EXCEPT !.attempted = TRUE, !.queries = s.queries + q,
                              !.pulled = IF due THEN PullOutcome(RELAY_SECRET, net)
                                         ELSE s.pulled]
         IN IF pa # <<>> /\ s.file = <<>>
            THEN [st |-> [s2 EXCEPT !.file = pa], data |-> pa[1]]
            ELSE [st |-> s2,
                  data |-> IF s.file # <<>> THEN s.file[1] ELSE EmptyRec]

\* _load_session on store s; net: the backup endpoint answers.
\* Returns the store afterwards and the record returned.
LoadSession(s, net) ==
    IF s.file # <<>> /\ Get(s.file[1], "session") # ""
    THEN [st |-> s, data |-> s.file[1]]
    ELSE LET due == PullDue(s.attempted)
             pa  == IF due THEN PullSessionFromPa(RELAY_SECRET, s.remote, net)
                    ELSE <<>>
             q   == IF due THEN PullQueries(RELAY_SECRET) ELSE 0
             s2  == [s EXCEPT !.attempted = TRUE, !.queries = s.queries + q,
                              !.pulled = IF due THEN PullOutcome(RELAY_SECRET, net)
                                         ELSE s.pulled]
         IN IF pa # <<>>
            THEN [st |-> [s2 EXCEPT !.file = pa], data |-> pa[1]]
            ELSE [st |-> s2,
                  data |-> IF s.file # <<>> THEN s.file[1] ELSE EmptyRec]

\* Variant: every save starts a backup thread.
SavePushes_Always(data) == TRUE

\* Does _save_session start a backup thread for this record (line 154)?
SavePushes(data) == Get(data, "session") # ""

\* _save_session: the file is written, then the backup thread is started
\* and not waited for.  With a prompt endpoint the thread has delivered the
\* record by the end of the request; with a slow one it is left running.
SaveSession(s, data) ==
    LET w == [s EXCEPT !.file = <<data>>, !.saved = s.saved + 1] IN
    IF ~SavePushes(data) THEN w
    ELSE IF pa_slow
    THEN [w EXCEPT !.pushing = Append(s.pushing, data),
                   !.pushed = s.pushed + 1]
    ELSE [w EXCEPT !.remote = PushSessionToPa(RELAY_SECRET, s.remote, data, TRUE),
                   !.pushed = s.pushed + 1]

\* The store written back to the variables at the end of a request.
Commit(s) ==
    /\ file' = s.file
    /\ remote' = IF PullDue(s.attempted) THEN s.remote ELSE <<>>
    /\ pa_restore_attempted' = s.attempted
    /\ pulls' = IF pulls + s.queries < MaxPulls THEN pulls + s.queries ELSE MaxPulls
    /\ pushed' = s.pushed
    /\ saved' = s.saved
    /\ Len(s.pushing) <= MaxPushing
    /\ pushing' = s.pushing
    /\ pulled' = s.pulled
    /\ UNCHANGED pa_slow

\* The answers of the backup endpoint to a pull that make a difference to
\* _load_session on store s: the endpoint is asked only by the first load
\* that finds no local session.
PullNets(s) ==
    IF BackupEnabled(RELAY_SECRET) /\ PullDue(s.attempted)
       /\ ~(s.file # <<>> /\ Get(s.file[1], "session") # "")
    THEN BOOLEAN ELSE {TRUE}

\* Variant: every token passes.
CheckSecret_Always(token) == TRUE

\* _check_secret
CheckSecret(token) == token = RELAY_SECRET

\* A request answered before it loads the record.
Rejected(op, outcome, n, m) ==
    /\ req' = [op |-> op]
    /\ resp' = [kind |-> outcome]
    /\ loaded' = <<>>
    /\ opened' = n
    /\ released' = m
    /\ pushed' = 0
    /\ saved' = 0
    /\ pulled' = "none"
    /\ UNCHANGED <<file, remote, pa_restore_attempted, RELAY_SECRET, pulls,
                   pushing, pa_slow, inflight>>

\* Variant: a request answered after its first load writes the record back.
Answered_Saves(l, r, kind, n) ==
    /\ Commit(SaveSession(l.st, l.data))
    /\ req' = r
    /\ resp' = [kind |-> kind]
    /\ loaded' = <<>>
    /\ opened' = n
    /\ released' = n
    /\ UNCHANGED <<RELAY_SECRET, inflight>>

\* A request answered after its first load, with nothing saved.
Answered(l, r, kind, n) ==
    /\ Commit(l.st)
    /\ req' = r
    /\ resp' = [kind |-> kind]
    /\ loaded' = <<>>
    /\ opened' = n
    /\ released' = n
    /\ UNCHANGED <<RELAY_SECRET, inflight>>

\* ------------------------------------------------------------- /health

Health ==
    \E token \in Tokens, net \in PullNets(Store) :
        LET l == LoadSession(Store, net) IN
        /\ secret_ok' = (token = RELAY_SECRET)
        /\ Commit(l.st)
        /\ req' = [op |-> "health"]
        /\ resp' = [kind |-> "ok", session_present |-> Get(l.data, "session") # ""]
        /\ loaded' = <<l.data>>
        /\ opened' = 0
        /\ released' = 0
        /\ UNCHANGED <<RELAY_SECRET, inflight>>

\* ----------------------------------------------------------- /disconnect

\* lines 784-786
DisconnectRecord(data) ==
    Pop(Pop(Pop(data, "session"), "temp_session"), "phone_code_hash")

Disconnect ==
    \E token \in Tokens :
      /\ secret_ok' = (token = RELAY_SECRET)
      /\ IF ~CheckSecret(token) THEN Rejected("disconnect", "unauthorized", 0, 0)
        ELSE \E net \in PullNets(Store) :
            LET l == LoadSession(Store, net)
                s == SaveSession(l.st, DisconnectRecord(l.data)) IN
            /\ Commit(s)
            /\ req' = [op |-> "disconnect"]
            /\ resp' = [kind |-> "success"]
            /\ loaded' = <<>>
            /\ opened' = 0
            /\ released' = 0
            /\ UNCHANGED <<RELAY_SECRET, inflight>>

\* ------------------------------------------------ client construction

\* int(api_id) succeeds
IsNumber(a) == a \in {"1", "2"}

\* _make_client(session_str, api_id, api_hash): loads the record, lets the
\* arguments override it, and returns no client (<<>>) without both
\* credentials; the client's session blob is session_str or else the stored
\* session.  "" stands for 0 / None / '' alike.
MakeClient(s, net, session_str, api_id, api_hash) ==
    LET l     == LoadSession(s, net)
        aid   == IF api_id # "" THEN api_id ELSE Get(l.data, "api_id")
        ahash == IF api_hash # "" THEN api_hash ELSE Get(l.data, "api_hash")
        sess  == IF session_str # "" THEN session_str ELSE Get(l.data, "session")
    IN [st |-> l.st,
        client |-> IF aid = "" \/ ahash = "" THEN <<>> ELSE <<sess>>]

\* TelegramClient(StringSession(blob), api_id, api_hash) raises ValueError
\* when a credential is empty.
ClientRaises(api_id, api_hash) == api_id = "" \/ api_hash = ""

\* client.session.save() after the platform moved the login held for the
\* client's key to `event`.  A client built from no session gets a new key
\* on connect; an authorized key stays the authorized key it is.
SessionSave(blob, event) ==
    IF blob \in AuthBlobs THEN blob
    ELSE CASE event = "code_sent"       -> IF blob = "" THEN "T_sent" ELSE blob
           [] event = "password_needed" -> "T_2fa"
           [] event = "qr_token"        -> IF blob = "" THEN "Q_start" ELSE "Q_poll"
           [] event = "qr_password"     -> "Q_2fa"
           [] event = "login"           -> "A_new"
           [] OTHER                     -> blob

\* ------------------------------------------------------------ /send-code

\* Variant: storing the credentials also drops the pending code request.
SendCodeCredentials_DropsPair(data, api_id, api_hash, phone) ==
    Pop(Pop(Put(Put(Put(data, "api_id", api_id), "api_hash", api_hash),
                "phone", phone),
            "phone_code_hash"), "temp_session")

\* lines 336-341: the credentials are stored before any collaborator call
SendCodeCredentials(data, api_id, api_hash, phone) ==
    Put(Put(Put(data, "api_id", api_id), "api_hash", api_hash), "phone", phone)

\* Variant: the connection state of the code request is also stored as session.
SendCodeRecord_AlsoSession(data, pch, temp_session) ==
    Put(Put(Put(data, "phone_code_hash", pch), "temp_session", temp_session),
        "session", temp_session)

\* lines 377-380: the new transient pair replaces the stored one
SendCodeRecord(data, pch, temp_session) ==
    Put(Put(data, "phone_code_hash", pch), "temp_session", temp_session)

\* Does _send take the resend path (lines 350-355)?
ResendPath(force_sms, old) ==
    force_sms /\ Get(old, "phone_code_hash") # "" /\ Get(old, "temp_session") # ""

\* What the platform can answer along _send (lines 346-373).
SendCodeAnswers(resend) ==
    IF resend
    THEN {"connect_fail", "connect2_fail", "resend_ok",
          "resend_fail_send_ok", "resend_fail_send_fail"}
    ELSE {"connect_fail", "send_ok", "send_fail"}

\* _send: blob is the session of the client _make_client built, old the
\* record loaded at line 352.  ok: a (phone_code_hash, temp_session) pair
\* was returned; otherwise an exception left _send.  resend: how the resend
\* path went (lines 356-368: "no" when it was not entered); fresh: how the
\* request for a new code at line 370 went ("no" when it was not made).
SendRun(blob, old, ans) ==
    CASE ans = "connect_fail" ->
            [ok |-> FALSE, pch |-> "", ts |-> "", opened |-> 0, released |-> 0,
             resend |-> "no", fresh |-> "no"]
      [] ans = "connect2_fail" ->
            [ok |-> FALSE, pch |-> "", ts |-> "", opened |-> 1, released |-> 0,
             resend |-> "fail", fresh |-> "no"]
      [] ans = "resend_ok" ->
            [ok |-> TRUE, pch |-> "h_resend",
             ts |-> SessionSave(Get(old, "temp_session"), "code_resent"),
             opened |-> 2, released |-> 2, resend |-> "ok", fresh |-> "no"]
      [] ans = "resend_fail_send_ok" ->
            [ok |-> TRUE, pch |-> "h_new",
             ts |-> SessionSave(blob, "code_sent"), opened |-> 2, released |-> 2,
             resend |-> "fail", fresh |-> "ok"]
      [] ans = "resend_fail_send_fail" ->
            [ok |-> FALSE, pch |-> "", ts |-> "", opened |-> 2, released |-> 1,
             resend |-> "fail", fresh |-> "fail"]
      [] ans = "send_ok" ->
            [ok |-> TRUE, pch |-> "h_new",
             ts |-> SessionSave(blob, "code_sent"), opened |-> 1, released |-> 1,
             resend |-> "no", fresh |-> "ok"]
      [] OTHER ->
            [ok |-> FALSE, pch |-> "", ts |-> "", opened |-> 1, released |-> 0,
             resend |-> "no", fresh |-> "fail"]

SendCodeBody(cred, phone, force_sms, net) ==
    LET l1  == LoadSession(Store, net)
        d1  == SendCodeCredentials(l1.data, cred[1], cred[2], phone)
        s1  == SaveSession(l1.st, d1)
        mc  == MakeClient(s1, net, "", cred[1], cred[2])
        l2  == IF force_sms THEN LoadSession(mc.st, net)
               ELSE [st |-> mc.st, data |-> EmptyRec]
    IN \E ans \in SendCodeAnswers(ResendPath(force_sms, l2.data)) :
        LET run == SendRun(mc.client[1], l2.data, ans)
            l3  == LoadSession(l2.st, net)
            d3  == SendCodeRecord(l3.data, run.pch, run.ts)
        IN /\ Commit(IF run.ok THEN SaveSession(l3.st, d3) ELSE l2.st)
           /\ req' = [op |-> "send_code", api_id |-> cred[1],
                      api_hash |-> cred[2], phone |-> phone, ans |-> ans]
           /\ resp' = [kind |-> IF run.ok THEN "success" ELSE "error",
                       resend |-> run.resend, fresh |-> run.fresh]
           /\ loaded' = <<>>
           /\ opened' = run.opened
           /\ released' = run.released
           /\ UNCHANGED <<RELAY_SECRET, inflight>>

SendCode ==
    \E token \in Tokens :
      /\ secret_ok' = (token = RELAY_SECRET)
      /\ IF ~CheckSecret(token) THEN Rejected("send_code", "unauthorized", 0, 0)
        ELSE \E cred \in CredInputs, phone \in PhoneInputs :
            IF cred[1] = "" \/ cred[2] = "" \/ phone = "" \/ ~IsNumber(cred[1])
            THEN Rejected("send_code", "bad_request", 0, 0)
            ELSE \E force_sms \in BOOLEAN, net \in PullNets(Store) :
                    SendCodeBody(cred, phone, force_sms, net)

\* -------------------------------------------------------------- /sign-in

\* Variant: phone_code_hash is not removed.
SignInRecord_KeepsHash(data, session) ==
    Pop(Put(data, "session", session), "temp_session")

\* lines 461-466: the session is stored and the code flow's pair removed
SignInRecord(data, session) ==
    Pop(Pop(Put(data, "session", session), "temp_session"), "phone_code_hash")

\* Variant: phone_code_hash is dropped when the password is asked for.
SignInNeed2faRecord_DropsHash(data, updated) ==
    Pop(Put(data, "temp_session", updated), "phone_code_hash")

\* lines 455-458: the connection state that awaits the password is kept
SignInNeed2faRecord(data, updated) == Put(data, "temp_session", updated)

\* Variant: the sequencing guard is absent.
SignInStarted_Always(data) == TRUE

\* lines 406-407: is a code request in flight?
SignInStarted(data) ==
    Get(data, "temp_session") # "" /\ Get(data, "phone_code_hash") # ""

\* What the platform can answer along _sign (lines 409-445).  It accepts a
\* password only on a key whose code was confirmed, and asks for a password
\* only in answer to a code.
SignInAnswers(mode, blob) ==
    CASE mode = "none" -> {"connect_fail", "no_input"}
      [] mode = "code" ->
            {"connect_fail", "password_needed", "rejected"}
            \cup (IF blob # "T_2fa" THEN {"ok", "not_authorized", "get_me_fail"} ELSE {})
      [] OTHER ->
            {"connect_fail", "rejected"}
            \cup (IF blob \in {"T_2fa"} \cup AuthBlobs
                  THEN {"ok", "not_authorized", "get_me_fail"} ELSE {})

\* _sign: the result dict; kind "error" also when an exception left _sign
SignRun(temp_session, ans) ==
    CASE ans = "connect_fail" ->
            [kind |-> "error", blob |-> "", opened |-> 0, released |-> 0]
      [] ans = "password_needed" ->
            [kind |-> "need_2fa",
             blob |-> SessionSave(temp_session, "password_needed"),
             opened |-> 1, released |-> 1]
      [] ans = "ok" ->
            [kind |-> "success",
             blob |-> SessionSave(temp_session, "login"),
             opened |-> 1, released |-> 1]
      [] ans = "get_me_fail" ->
            [kind |-> "error", blob |-> "", opened |-> 1, released |-> 0]
      [] OTHER ->
            [kind |-> "error", blob |-> "", opened |-> 1, released |-> 1]

SignInBody(mode, net) ==
    LET l1   == LoadSession(Store, net)
        temp == Get(l1.data, "temp_session")
        r    == [op |-> "sign_in", mode |-> mode]
    IN IF ~SignInStarted(l1.data) THEN Answered(l1, r, "not_started", 0)
       ELSE IF ClientRaises(Get(l1.data, "api_id"), Get(l1.data, "api_hash"))
       THEN Answered(l1, r, "error", 0)
       ELSE \E ans \in SignInAnswers(mode, temp) :
            LET run == SignRun(temp, ans)
                l2  == LoadSession(l1.st, net)
                d2  == IF run.kind = "need_2fa"
                       THEN SignInNeed2faRecord(l2.data, run.blob)
                       ELSE SignInRecord(l2.data, run.blob)
                sv  == run.kind \in {"need_2fa", "success"}
            IN  /\ Commit(IF sv THEN SaveSession(l2.st, d2) ELSE l1.st)
                /\ req' = r
                /\ resp' = [kind |-> run.kind]
                /\ loaded' = <<>>
                /\ opened' = run.opened
                /\ released' = run.released
                /\ UNCHANGED <<RELAY_SECRET, inflight>>

SignIn ==
    \E token \in Tokens :
      /\ secret_ok' = (token = RELAY_SECRET)
      /\ IF ~CheckSecret(token) THEN Rejected("sign_in", "unauthorized", 0, 0)
        ELSE \E mode \in {"code", "password", "none"}, net \in PullNets(Store) :
                SignInBody(mode, net)

\* ------------------------------------------------------- /import-session

\* lines 533-541
ImportRecord(data, session, api_id, api_hash, phone) ==
    Pop(Pop(Put(Put(Put(Put(data, "session", session), "api_id", api_id),
                    "api_hash", api_hash), "phone", phone),
            "temp_session"), "phone_code_hash")

\* What the platform can answer along _validate (lines 499-523): an
\* authorized key is reported authorized, an unknown one is not.
ImportAnswers(session_str) ==
    IF session_str \in AuthBlobs THEN {"connect_fail", "ok", "get_me_fail"}
    ELSE {"connect_fail", "not_authorized"}

\* lines 525-531: did validation fail?
ImportFailed(ans) == ans # "ok"

\* Variant: the record is written before the validation result is looked at.
ImportBody_SavesFirst(session_str, cred, ans) ==
    \E net \in PullNets(Store) :
        LET l == LoadSession(Store, net)
            d == ImportRecord(l.data, session_str, cred[1], cred[2], MePhone)
        IN /\ Commit(SaveSession(l.st, d))
           /\ req' = [op |-> "import_session", session_string |-> session_str,
                      api_id |-> cred[1], api_hash |-> cred[2]]
           /\ resp' = [kind |-> IF ImportFailed(ans) THEN "error" ELSE "success"]
           /\ loaded' = <<>>
           /\ opened' = IF ans = "connect_fail" THEN 0 ELSE 1
           /\ released' = IF ans = "connect_fail" THEN 0 ELSE 1
           /\ UNCHANGED <<RELAY_SECRET, inflight>>

ImportBody(session_str, cred, ans) ==
    IF ImportFailed(ans)
    THEN Rejected("import_session", "error",
                  IF ans = "connect_fail" THEN 0 ELSE 1,
                  IF ans = "connect_fail" THEN 0 ELSE 1)
    ELSE \E net \in PullNets(Store) :
         LET l == LoadSession(Store, net)
             d == ImportRecord(l.data, SessionSave(session_str, "import"),
                               cred[1], cred[2], MePhone)
         IN /\ Commit(SaveSession(l.st, d))
            /\ req' = [op |-> "import_session", session_string |-> session_str,
                       api_id |-> cred[1], api_hash |-> cred[2]]
            /\ resp' = [kind |-> "success"]
            /\ loaded' = <<>>
            /\ opened' = 1
            /\ released' = 1
            /\ UNCHANGED <<RELAY_SECRET, inflight>>

ImportSession ==
    \E token \in Tokens :
      /\ secret_ok' = (token = RELAY_SECRET)
      /\ IF ~CheckSecret(token) THEN Rejected("import_session", "unauthorized", 0, 0)
        ELSE \E session_str \in ImportInputs, cred \in CredInputs :
            IF session_str = "" \/ cred[1] = "" \/ cred[2] = "" \/ ~IsNumber(cred[1])
            THEN Rejected("import_session", "bad_request", 0, 0)
            ELSE \E ans \in ImportAnswers(session_str) :
                    ImportBody(session_str, cred, ans)

\* ------------------------------------------------------ /qr-login/start

\* lines 596-601
QrStartRecord(data, temp_session, api_id, api_hash) ==
    Put(Put(Put(data, "qr_temp_session", temp_session), "api_id", api_id),
        "api_hash", api_hash)

\* What the platform can answer along _start (lines 571-589): the connection
\* fails, a login token, another result type, an exception (which leaves
\* _start past the disconnect calls).
QrStartAnswers == {"connect_fail", "token", "unexpected", "raise"}

QrStartBody(cred, ans) ==
    IF ans # "token"
    THEN Rejected("qr_start", "error",
                  IF ans = "connect_fail" THEN 0 ELSE 1,
                  IF ans = "unexpected" THEN 1 ELSE 0)
    ELSE \E net \in PullNets(Store) :
         LET l == LoadSession(Store, net)
             d == QrStartRecord(l.data, SessionSave("", "qr_token"), cred[1], cred[2])
         IN /\ Commit(SaveSession(l.st, d))
            /\ req' = [op |-> "qr_start", api_id |-> cred[1], api_hash |-> cred[2]]
            /\ resp' = [kind |-> "success"]
            /\ loaded' = <<>>
            /\ opened' = 1
            /\ released' = 1
            /\ UNCHANGED <<RELAY_SECRET, inflight>>

QrLoginStart ==
    \E token \in Tokens :
      /\ secret_ok' = (token = RELAY_SECRET)
      /\ IF ~CheckSecret(token) THEN Rejected("qr_start", "unauthorized", 0, 0)
        ELSE \E cred \in CredInputs :
            IF cred[1] = "" \/ cred[2] = "" \/ ~IsNumber(cred[1])
            THEN Rejected("qr_start", "bad_request", 0, 0)
            ELSE \E ans \in QrStartAnswers : QrStartBody(cred, ans)

\* ------------------------------------------------------ /qr-login/check

\* Variant: the stored connection state is kept.
QrTempRecord_Keeps(data, temp_session) == data

\* lines 683-687: the connection state of this poll replaces the stored one
QrTempRecord(data, temp_session) == Put(data, "qr_temp_session", temp_session)

\* lines 692-698 (and 762-767 of /qr-login/2fa)
QrSuccessRecord(data, session, phone) ==
    Pop(Put(Put(data, "session", session), "phone", phone), "qr_temp_session")

\* lines 620-621: is a QR login in flight?
QrCheckStarted(data) ==
    Get(data, "qr_temp_session") # "" /\ Get(data, "api_id") # ""

\* What the platform can answer along _check (lines 623-673).  A key that
\* awaits the password is not reported logged in.  After a migrate signal
\* the token import at the new data-center may report the login
\* ("migrate_success"), another token ("migrate_fail") or a further migrate
\* signal ("migrate_again").
QrCheckAnswers(blob) ==
    {"connect_fail", "token", "other", "password_needed", "migrate_fail",
     "migrate_again", "raise"}
    \cup (IF blob # "Q_2fa" THEN {"success", "migrate_success", "not_authorized"} ELSE {})

\* Variant: a further migrate signal is followed to the next data-center.
QrCheckRun_FollowsMigrate(temp_session, ans) ==
    CASE ans = "connect_fail" ->
            [kind |-> "error", token |-> FALSE, temp |-> "", session |-> "",
             opened |-> 0, switches |-> 0, imports |-> 0]
      [] ans = "token" ->
            [kind |-> "waiting", token |-> TRUE,
             temp |-> SessionSave(temp_session, "qr_token"), session |-> "",
             opened |-> 1, switches |-> 0, imports |-> 0]
      [] ans = "other" ->
            [kind |-> "waiting", token |-> FALSE, temp |-> "", session |-> "",
             opened |-> 1, switches |-> 0, imports |-> 0]
      [] ans = "password_needed" ->
            [kind |-> "need_2fa", token |-> FALSE,
             temp |-> SessionSave(temp_session, "qr_password"), session |-> "",
             opened |-> 1, switches |-> 0, imports |-> 0]
      [] ans = "success" ->
            [kind |-> "success", token |-> FALSE, temp |-> "",
             session |-> SessionSave(temp_session, "login"),
             opened |-> 1, switches |-> 0, imports |-> 0]
      [] ans = "migrate_success" ->
            [kind |-> "success", token |-> FALSE, temp |-> "",
             session |-> SessionSave(temp_session, "login"),
             opened |-> 1, switches |-> 1, imports |-> 1]
      [] ans = "migrate_fail" ->
            [kind |-> "error", token |-> FALSE, temp |-> "", session |-> "",
             opened |-> 1, switches |-> 1, imports |-> 1]
      [] ans = "migrate_again" ->
            [kind |-> "error", token |-> FALSE, temp |-> "", session |-> "",
             opened |-> 1, switches |-> 2, imports |-> 2]
      [] OTHER ->
            [kind |-> "error", token |-> FALSE, temp |-> "", session |-> "",
             opened |-> 1, switches |-> 0, imports |-> 0]

\* _check: the result dict; kind "error" also when an exception left _check.
\* Every path after connect() closes the connection (lines 630-673).
\* temp: the temp_session entry of the result ("" when it has none).
\* switches / imports: the calls of _switch_dc (line 643) and of
\* ImportLoginTokenRequest (line 644) the run made.
QrCheckRun(temp_session, ans) ==
    CASE ans = "connect_fail" ->
            [kind |-> "error", token |-> FALSE, temp |-> "", session |-> "",
             opened |-> 0, switches |-> 0, imports |-> 0]
      [] ans = "token" ->
            [kind |-> "waiting", token |-> TRUE,
             temp |-> SessionSave(temp_session, "qr_token"), session |-> "",
             opened |-> 1, switches |-> 0, imports |-> 0]
      [] ans = "other" ->
            [kind |-> "waiting", token |-> FALSE, temp |-> "", session |-> "",
             opened |-> 1, switches |-> 0, imports |-> 0]
      [] ans = "password_needed" ->
            [kind |-> "need_2fa", token |-> FALSE,
             temp |-> SessionSave(temp_session, "qr_password"), session |-> "",
             opened |-> 1, switches |-> 0, imports |-> 0]
      [] ans = "success" ->
            [kind |-> "success", token |-> FALSE, temp |-> "",
             session |-> SessionSave(temp_session, "login"),
             opened |-> 1, switches |-> 0, imports |-> 0]
      [] ans = "migrate_success" ->
            [kind |-> "success", token |-> FALSE, temp |-> "",
             session |-> SessionSave(temp_session, "login"),
             opened |-> 1, switches |-> 1, imports |-> 1]
      [] ans \in {"migrate_fail", "migrate_again"} ->
            [kind |-> "error", token |-> FALSE, temp |-> "", session |-> "",
             opened |-> 1, switches |-> 1, imports |-> 1]
      [] OTHER ->
            [kind |-> "error", token |-> FALSE, temp |-> "", session |-> "",
             opened |-> 1, switches |-> 0, imports |-> 0]

QrCheckBody(net) ==
    LET l1   == LoadSession(Store, net)
        temp == Get(l1.data, "qr_temp_session")
        r    == [op |-> "qr_check"]
    IN IF ~QrCheckStarted(l1.data) THEN Answered(l1, r, "not_started", 0)
       ELSE IF ClientRaises(Get(l1.data, "api_id"), Get(l1.data, "api_hash"))
       THEN Answered(l1, r, "error", 0)
       ELSE \E ans \in QrCheckAnswers(temp) :
            LET run == QrCheckRun(temp, ans)
                l2  == LoadSession(l1.st, net)
                d2  == IF run.temp # "" THEN QrTempRecord(l2.data, run.temp)
                       ELSE QrSuccessRecord(l2.data, run.session, MePhone)
                sv  == run.temp # "" \/ run.kind = "success"
            IN  /\ Commit(IF sv THEN SaveSession(l2.st, d2) ELSE l1.st)
                /\ req' = [op |-> "qr_check", ans |-> ans]
                /\ resp' = [kind |-> run.kind, token |-> run.token,
                            switches |-> run.switches, imports |-> run.imports]
                /\ loaded' = <<>>
                /\ opened' = run.opened
                /\ released' = run.opened
                /\ UNCHANGED <<RELAY_SECRET, inflight>>

QrLoginCheck ==
    \E token \in Tokens :
      /\ secret_ok' = (token = RELAY_SECRET)
      /\ IF ~CheckSecret(token) THEN Rejected("qr_check", "unauthorized", 0, 0)
        ELSE \E net \in PullNets(Store) : QrCheckBody(net)

\* -------------------------------------------------------- /qr-login/2fa

\* lines 726-727: is a QR login in flight?
Qr2faStarted(data) == Get(data, "qr_temp_session") # ""

\* What the platform can answer along _2fa (lines 729-752).  It accepts a
\* password only on a key that awaits one.
Qr2faAnswers(blob) ==
    {"connect_fail", "password_invalid", "raise"}
    \cup (IF blob = "Q_2fa" THEN {"ok", "not_authorized"} ELSE {})

\* Variant: the record is written whatever _2fa returned.
Qr2faSaves_Always(ans) == TRUE

\* lines 759-767: only a successful _2fa is followed by a save
Qr2faSaves(ans) == ans = "ok"

Qr2faBody(net) ==
    LET l1   == LoadSession(Store, net)
        temp == Get(l1.data, "qr_temp_session")
        r    == [op |-> "qr_2fa"]
    IN IF ~Qr2faStarted(l1.data) THEN Answered(l1, r, "not_started", 0)
       ELSE IF ClientRaises(Get(l1.data, "api_id"), Get(l1.data, "api_hash"))
       THEN Answered(l1, r, "error", 0)
       ELSE \E ans \in Qr2faAnswers(temp) :
            LET l2 == LoadSession(l1.st, net)
                d2 == QrSuccessRecord(l2.data, SessionSave(temp, "login"), MePhone)
                sv == Qr2faSaves(ans)
            IN  /\ Commit(IF sv THEN SaveSession(l2.st, d2) ELSE l1.st)
                /\ req' = [op |-> "qr_2fa", ans |-> ans]
                /\ resp' = [kind |-> CASE ans = "ok" -> "success"
                                       [] ans = "password_invalid" -> "invalid_password"
                                       [] OTHER -> "error"]
                /\ loaded' = <<>>
                /\ opened' = IF ans = "connect_fail" THEN 0 ELSE 1
                /\ released' = IF ans = "connect_fail" THEN 0 ELSE 1
                /\ UNCHANGED <<RELAY_SECRET, inflight>>

QrLogin2fa ==
    \E token \in Tokens :
      /\ secret_ok' = (token = RELAY_SECRET)
      /\ IF ~CheckSecret(token) THEN Rejected("qr_2fa", "unauthorized", 0, 0)
        ELSE \E password \in BOOLEAN :
            IF ~password THEN Rejected("qr_2fa", "bad_request", 0, 0)
            ELSE \E net \in PullNets(Store) : Qr2faBody(net)

\* ------------------------------------------------------------- executor

\* What the platform can answer to a client built from the stored session
\* up to is_user_authorized(): the connection fails, the key is authorized,
\* the key is no longer authorized (the account ended the session since it
\* was stored), a later request raises.
ExecutorAnswers(blob) ==
    {"connect_fail", "not_authorized"}
    \cup (IF blob \in AuthBlobs THEN {"ok", "raise"} ELSE {})

\* -------------------------------------------------------------- /status

\* Variant: only the credentials are looked at.
StatusUnconfigured_CredentialsOnly(data) == Get(data, "api_id") = ""

\* lines 259-265: answered from the record alone
StatusUnconfigured(data) == Get(data, "session") = "" \/ Get(data, "api_id") = ""

\* _check (lines 268-299): every path after connect() disconnects.
StatusBody(net) ==
    LET l  == LoadSession(Store, net)
        mc == MakeClient(l.st, net, "", "", "")
    IN IF StatusUnconfigured(l.data)
       THEN /\ Commit(l.st)
            /\ req' = [op |-> "status"]
            /\ resp' = [kind |-> "status", connected |-> FALSE]
            /\ loaded' = <<>>
            /\ opened' = 0
            /\ released' = 0
            /\ UNCHANGED <<RELAY_SECRET, inflight>>
       ELSE \E ans \in IF mc.client = <<>> THEN {"no_client"}
                       ELSE ExecutorAnswers(mc.client[1]) :
            /\ Commit(mc.st)
            /\ req' = [op |-> "status"]
            /\ resp' = [kind |-> "status", connected |-> (ans = "ok")]
            /\ loaded' = <<>>
            /\ opened' = IF ans \in {"no_client", "connect_fail"} THEN 0 ELSE 1
            /\ released' = IF ans \in {"no_client", "connect_fail"} THEN 0 ELSE 1
            /\ UNCHANGED <<RELAY_SECRET, inflight>>

Status ==
    \E token \in Tokens :
      /\ secret_ok' = (token = RELAY_SECRET)
      /\ IF ~CheckSecret(token) THEN Rejected("status", "unauthorized", 0, 0)
        ELSE \E net \in PullNets(Store) : StatusBody(net)

\* ------------------------------------------------------ /get-star-gifts

\* What _fetch returns (lines 803-860): the two early returns at 805-806 and
\* 809-810 are pairs (None, message), the others triples (gifts, balance,
\* message).
FetchReturn(ans) ==
    CASE ans = "no_client"      -> <<"none", "client_not_created">>
      [] ans = "not_authorized" -> <<"none", "session_expired">>
      [] ans = "ok"             -> <<"gifts", "balance", "">>
      [] OTHER                  -> <<"none", "none", "exception">>

\* lines 862-872: `gifts, balance, err = result` raises ValueError on a
\* pair, and the handler answers with the text of that exception.
FetchAnswer(result) ==
    IF Len(result) # 3 THEN [kind |-> "error", error |-> "unpack_error"]
    ELSE IF result[3] # "" THEN [kind |-> "error", error |-> result[3]]
    ELSE [kind |-> "success", error |-> ""]

\* _fetch (lines 803-860): the connections it opened and closed.  The
\* return at line 810 (not authorized) comes before any disconnect().
FetchRun(ans) ==
    LET out == FetchAnswer(FetchReturn(ans)) IN
    CASE ans \in {"no_client", "connect_fail"} ->
            [out |-> out, opened |-> 0, released |-> 0]
      [] ans = "not_authorized" ->
            [out |-> out, opened |-> 1, released |-> 0]
      [] OTHER ->
            [out |-> out, opened |-> 1, released |-> 1]

GetStarGiftsBody(net) ==
    LET l  == LoadSession(Store, net)
        mc == MakeClient(l.st, net, "", "", "")
    IN IF Get(l.data, "session") = ""
       THEN Answered(l, [op |-> "get_star_gifts"], "not_configured", 0)
       ELSE \E ans \in IF mc.client = <<>> THEN {"no_client"}
                       ELSE ExecutorAnswers(mc.client[1]) :
            LET run == FetchRun(ans) IN
            /\ Commit(mc.st)
            /\ req' = [op |-> "get_star_gifts", ans |-> ans]
            /\ resp' = run.out
            /\ loaded' = <<>>
            /\ opened' = run.opened
            /\ released' = run.released
            /\ UNCHANGED <<RELAY_SECRET, inflight>>

GetStarGifts ==
    \E token \in Tokens :
      /\ secret_ok' = (token = RELAY_SECRET)
      /\ IF ~CheckSecret(token)
        THEN Rejected("get_star_gifts", "unauthorized", 0, 0)
        ELSE \E net \in PullNets(Store) : GetStarGiftsBody(net)

\* ----------------------------------------------------------- /send-gift

\* gift_id values a request may carry
GiftIdInputs == {"", "7", "8", "9", "x"}

\* user_id values a request may carry
UserIdInputs == {"", "5"}

\* int(gift_id) succeeds
IsInt(t) == t \in {"7", "8", "9"}

\* int(gift_id)
IntOf(t) == CASE t = "7" -> 7 [] t = "8" -> 8 [] OTHER -> 9

\* A catalog entry as GetStarGiftsRequest returns it.
Gift(id, sold_out) == [id |-> id, sold_out |-> sold_out]

\* The platform's gift list: one gift on sale, one sold out.
Catalog == << Gift(7, FALSE), Gift(8, TRUE) >>

\* What GetStarGiftsRequest can answer at line 922: <<>> when the request
\* raises, otherwise <<gift_list>>.
CatalogAnswers == { <<>>, <<Catalog>> }

\* line 924
ValidIds(gift_list) == { gift_list[i].id : i \in 1..Len(gift_list) }

\* not getattr(g, 'sold_out', False)
NotSoldOut(g) == ~g.sold_out

\* lines 928-929: the ids the error text lists, the first 20 entries that
\* are not sold out
AvailIds(gift_list) ==
    LET avail == SelectSeq(gift_list, NotSoldOut)
        n     == IF Len(avail) < 20 THEN Len(avail) ELSE 20
    IN { avail[i].id : i \in 1..n }

\* lines 921-935: does the catalog check end the call with STARGIFT_INVALID?
\* An exception inside the try block (the catalog request, int(gift_id))
\* is logged and the call goes on.
GiftRefused(gift_id, cat) ==
    cat # <<>> /\ IsInt(gift_id) /\ IntOf(gift_id) \notin ValidIds(cat[1])

\* How GetPaymentFormRequest and SendStarsFormRequest can go.
PayAnswers == {"form_fail", "ok"}

\* _send from line 917 on, once the client is connected and authorized:
\* form / confirm say whether the payment form was requested and the
\* payment confirmed, named is the set of ids the error text lists.
GiftRun(gift_id, cat, pay) ==
    IF GiftRefused(gift_id, cat)
    THEN [kind |-> "gift_invalid", form |-> FALSE, confirm |-> FALSE,
          named |-> AvailIds(cat[1])]
    ELSE IF ~IsInt(gift_id)
    THEN [kind |-> "error", form |-> FALSE, confirm |-> FALSE, named |-> {}]
    ELSE [kind |-> IF pay = "ok" THEN "success" ELSE "error",
          form |-> TRUE, confirm |-> (pay # "form_fail"), named |-> {}]

\* _send before line 917, and the connections of the whole run.  The
\* return at line 898 (not authorized) comes before any disconnect().
SendGiftRun(gift_id, ans, cat, pay) ==
    LET none == [kind |-> "error", form |-> FALSE, confirm |-> FALSE,
                 named |-> {}]
    IN CASE ans \in {"no_client", "connect_fail"} ->
                [out |-> none, catalog |-> <<>>, opened |-> 0, released |-> 0]
         [] ans = "not_authorized" ->
                [out |-> none, catalog |-> <<>>, opened |-> 1, released |-> 0]
         [] ans = "ok" ->
                [out |-> GiftRun(gift_id, cat, pay), catalog |-> cat,
                 opened |-> 1, released |-> 1]
         [] OTHER ->
                [out |-> none, catalog |-> <<>>, opened |-> 1, released |-> 1]

SendGiftBody(gift_id, net) ==
    LET l  == LoadSession(Store, net)
        mc == MakeClient(l.st, net, "", "", "")
    IN IF Get(l.data, "session") = ""
       THEN Answered(l, [op |-> "send_gift"], "not_configured", 0)
       ELSE \E ans \in IF mc.client = <<>> THEN {"no_client"}
                       ELSE ExecutorAnswers(mc.client[1]) :
            \E cat \in IF ans = "ok" THEN CatalogAnswers ELSE {<<>>} :
            \E pay \in IF ans = "ok" /\ ~GiftRefused(gift_id, cat)
                          /\ IsInt(gift_id)
                       THEN PayAnswers ELSE {"ok"} :
            LET run == SendGiftRun(gift_id, ans, cat, pay) IN
            /\ Commit(mc.st)
            /\ req' = IF ans = "ok"
                      THEN [op |-> "send_gift", gift_id |-> gift_id]
                      ELSE [op |-> "send_gift"]
            /\ resp' = [kind |-> run.out.kind, form |-> run.out.form,
                        confirm |-> run.out.confirm, named |-> run.out.named,
                        catalog |-> run.catalog]
            /\ loaded' = <<>>
            /\ opened' = run.opened
            /\ released' = run.released
            /\ UNCHANGED <<RELAY_SECRET, inflight>>

SendGift ==
    \E token \in Tokens :
      /\ secret_ok' = (token = RELAY_SECRET)
      /\ IF ~CheckSecret(token) THEN Rejected("send_gift", "unauthorized", 0, 0)
        ELSE \E user_id \in UserIdInputs, gift_id \in GiftIdInputs :
            IF user_id = "" \/ gift_id = ""
            THEN Rejected("send_gift", "bad_request", 0, 0)
            ELSE \E net \in PullNets(Store) : SendGiftBody(gift_id, net)

\* ------------------------------------------------ environment (not requests)

\* The host wipes the local disk while the process keeps running.
WipeLocal ==
    /\ file # <<>>
    /\ file' = <<>>
    /\ req' = [op |-> "wipe"]
    /\ resp' = [kind |-> "none"]
    /\ loaded' = <<>>
    /\ opened' = 0
    /\ released' = 0
    /\ secret_ok' = TRUE
    /\ pushed' = 0
    /\ saved' = 0
    /\ pulled' = "none"
    /\ UNCHANGED <<remote, pa_restore_attempted, RELAY_SECRET, pulls,
                   pushing, pa_slow, inflight>>

\* The backup thread started i-th among those still running ends: its
\* request arrived at the endpoint (net) or failed.
PushThreadEnds(i, net) ==
    LET rem == PushSessionToPa(RELAY_SECRET, remote, pushing[i], net) IN
    /\ remote' = IF PullDue(pa_restore_attempted) THEN rem ELSE <<>>
    /\ pushing' = [j \in 1..(Len(pushing) - 1) |->
                      IF j < i THEN pushing[j] ELSE pushing[j + 1]]
    /\ UNCHANGED <<file, pa_restore_attempted, RELAY_SECRET, pulls, req,
                   resp, loaded, opened, released, secret_ok, pushed,
                   saved, pa_slow, pulled, inflight>>

\* A backup thread ends.  Threads end in any order.
PushThread ==
    \E i \in DOMAIN pushing, net \in BOOLEAN : PushThreadEnds(i, net)

\* A backup thread ends with its record delivered.
PushArrives ==
    \E i \in DOMAIN pushing : PushThreadEnds(i, TRUE)

\* ------------------------------------------- requests handled concurrently

\* The server runs each request in a thread of its own (app.run, threaded),
\* and no lock guards the record: between the _load_session and the
\* _save_session of one request another request may load and save.  Two
\* requests, a sign-in and a disconnect, taken one statement group at a time.
Slots == {"a", "b"}

\* A thread that handles no request.
Idle == [op |-> "none", pc |-> "idle", data |-> EmptyRec, blob |-> "",
         kind |-> ""]

\* Variant: the request changes the record as the file holds it when it
\* saves.
StaleRecord_Reloads(t) == IF file = <<>> THEN EmptyRec ELSE file[1]

\* The dict `data` of the request in thread t: what its _load_session
\* returned (lines 783 and 455 / 461), whatever the file holds by now.
StaleRecord(t) == inflight[t].data

\* /disconnect, lines 779-783: the secret check and the load.
DisconnectLoads ==
    \E t \in Slots, token \in Tokens :
      /\ inflight[t].pc = "idle"
      /\ secret_ok' = (token = RELAY_SECRET)
      /\ IF ~CheckSecret(token) THEN Rejected("disconnect", "unauthorized", 0, 0)
        ELSE \E net \in PullNets(Store) :
            LET l == LoadSession(Store, net) IN
            /\ Commit(l.st)
            /\ inflight' = [inflight EXCEPT ![t] =
                              [op |-> "disconnect", pc |-> "loaded",
                               data |-> l.data, blob |-> "", kind |-> ""]]
            /\ UNCHANGED <<req, resp, loaded, opened, released, RELAY_SECRET>>

\* /disconnect, lines 784-788: the pops, the save and the answer.
DisconnectSaves ==
    \E t \in Slots :
      /\ inflight[t].op = "disconnect" /\ inflight[t].pc = "loaded"
      /\ Commit(SaveSession(Store, DisconnectRecord(StaleRecord(t))))
      /\ inflight' = [inflight EXCEPT ![t].pc = "done"]
      /\ req' = [op |-> "disconnect"]
      /\ resp' = [kind |-> "success"]
      /\ loaded' = <<>>
      /\ opened' = 0
      /\ released' = 0
      /\ secret_ok' = TRUE
      /\ UNCHANGED RELAY_SECRET

\* /sign-in, lines 391-453: the secret check, the first load, the guard and
\* _sign.  A request that fails returns here.
SignInSigns ==
    \E t \in Slots, token \in Tokens :
      /\ inflight[t].pc = "idle"
      /\ secret_ok' = (token = RELAY_SECRET)
      /\ IF ~CheckSecret(token) THEN Rejected("sign_in", "unauthorized", 0, 0)
        ELSE \E mode \in {"code", "password", "none"}, net \in PullNets(Store) :
            LET l1   == LoadSession(Store, net)
                temp == Get(l1.data, "temp_session")
                r    == [op |-> "sign_in", mode |-> mode]
            IN IF ~SignInStarted(l1.data) THEN Answered(l1, r, "not_started", 0)
               ELSE IF ClientRaises(Get(l1.data, "api_id"), Get(l1.data, "api_hash"))
               THEN Answered(l1, r, "error", 0)
               ELSE \E ans \in SignInAnswers(mode, temp) :
                    LET run == SignRun(temp, ans) IN
                    /\ Commit(l1.st)
                    /\ IF run.kind = "error"
                       THEN /\ req' = r
                            /\ resp' = [kind |-> "error"]
                            /\ loaded' = <<>>
                            /\ opened' = run.opened
                            /\ released' = run.released
                            /\ UNCHANGED <<RELAY_SECRET, inflight>>
                       ELSE /\ inflight' = [inflight EXCEPT ![t] =
                                              [op |-> "sign_in", pc |-> "signed",
                                               data |-> EmptyRec, blob |-> run.blob,
                                               kind |-> run.kind]]
                            /\ UNCHANGED <<req, resp, loaded, opened, released,
                                           RELAY_SECRET>>

\* /sign-in, line 455 or 461: the load that precedes the save.
SignInLoads ==
    \E t \in Slots, net \in PullNets(Store) :
        LET l == LoadSession(Store, net) IN
        /\ inflight[t].op = "sign_in" /\ inflight[t].pc = "signed"
        /\ Commit(l.st)
        /\ inflight' = [inflight EXCEPT ![t].pc = "loaded", ![t].data = l.data]
        /\ UNCHANGED <<req, resp, loaded, opened, released, secret_ok,
                       RELAY_SECRET>>

\* /sign-in, lines 456-458 or 462-472: the record is changed, saved, and the
\* request answered.
SignInSaves ==
    \E t \in Slots :
        LET d == IF inflight[t].kind = "need_2fa"
                 THEN SignInNeed2faRecord(StaleRecord(t), inflight[t].blob)
                 ELSE SignInRecord(StaleRecord(t), inflight[t].blob) IN
        /\ inflight[t].op = "sign_in" /\ inflight[t].pc = "loaded"
        /\ Commit(SaveSession(Store, d))
        /\ inflight' = [inflight EXCEPT ![t].pc = "done"]
        /\ req' = [op |-> "sign_in"]
        /\ resp' = [kind |-> inflight[t].kind]
        /\ loaded' = <<>>
        /\ opened' = 1
        /\ released' = 1
        /\ secret_ok' = TRUE
        /\ UNCHANGED RELAY_SECRET

\* ------------------------------------------------------------------ spec

\* The process has started: nothing requested yet.
Started ==
    /\ file \in InitFiles
    /\ remote \in InitRemotes
    /\ pa_restore_attempted = FALSE
    /\ RELAY_SECRET \in Secrets
    /\ pulls = 0
    /\ req = [op |-> "start"]
    /\ resp = [kind |-> "none"]
    /\ loaded = <<>>
    /\ opened = 0
    /\ released = 0
    /\ secret_ok = TRUE
    /\ pushed = 0
    /\ saved = 0
    /\ pushing = <<>>
    /\ pulled = "none"
    /\ inflight = [t \in Slots |-> Idle]

\* Backup threads end before their request does.
Init == Started /\ pa_slow = FALSE

\* Backup threads end when they end.
PushInit == Started /\ pa_slow = TRUE

\* A relay with the backup in use: a request that loads the record may pull
\* it from the endpoint.
GateInit == Init /\ BackupEnabled(RELAY_SECRET)

\* The requests of the login flows, with the record's housekeeping.
AuthNext ==
    \/ Health
    \/ Disconnect
    \/ SendCode
    \/ SignIn
    \/ ImportSession
    \/ QrLoginStart
    \/ QrLoginCheck
    \/ QrLogin2fa
    \/ WipeLocal

\* The requests that use the stored session, with the record's housekeeping.
ExecutorNext ==
    \/ Health
    \/ Disconnect
    \/ ImportSession
    \/ Status
    \/ GetStarGifts
    \/ SendGift
    \/ WipeLocal

Next ==
    \/ Health
    \/ Disconnect
    \/ SendCode
    \/ SignIn
    \/ ImportSession
    \/ QrLoginStart
    \/ QrLoginCheck
    \/ QrLogin2fa
    \/ Status
    \/ GetStarGifts
    \/ SendGift
    \/ WipeLocal

Spec == Init /\ [][Next]_vars

\* Every route, on a relay with the backup in use.
GateSpec == GateInit /\ [][Next]_vars

\* The login flows alone.
AuthSpec == Init /\ [][AuthNext]_vars

\* The executor operations alone.
ExecutorSpec == Init /\ [][ExecutorNext]_vars

\* The requests that save the record, and the backup threads they start.
PushNext ==
    \/ Health
    \/ Disconnect
    \/ SendCode
    \/ ImportSession
    \/ PushThread
    \/ WipeLocal

PushSpec == PushInit /\ [][PushNext]_vars

\* The requests that save the record, on a relay whose backup endpoint is
\* slow but reachable: every backup thread delivers its record.
ArriveNext ==
    \/ Disconnect
    \/ SendCode
    \/ ImportSession
    \/ PushArrives

ArriveSpec == PushInit /\ [][ArriveNext]_vars

\* Two requests in two threads, from any start of the process.
RaceNext ==
    \/ DisconnectLoads
    \/ DisconnectSaves
    \/ SignInSigns
    \/ SignInLoads
    \/ SignInSaves

RaceSpec == Init /\ [][RaceNext]_vars

\* ------------------------------------------------------------ properties

\* Field k of the record in the local file ("" without a file or a key).
Stored(k) == IF file = <<>> THEN "" ELSE Get(file[1], k)

\* Does the first _load_session of this step replace the local file by the
\* backup's record (lines 119-131)?
Restores ==
    /\ Stored("session") = ""
    /\ ~pa_restore_attempted
    /\ pulled' = "answered"
    /\ remote # <<>>
    /\ Get(remote[1], "session") # ""

\* The record the first _load_session of this step returns.
FirstLoad ==
    IF Restores THEN remote[1]
    ELSE IF file = <<>> THEN EmptyRec ELSE file[1]

\* C1: a sign-in with the code that succeeds right after a successful
\* send-code leaves a record with a non-empty session and with neither
\* temp_session nor phone_code_hash.
C1_CodeLoginStoresSession ==
    [][ ( /\ req.op = "send_code" /\ resp.kind = "success"
          /\ req'.op = "sign_in" /\ resp'.kind = "success" /\ req'.mode = "code" )
        => ( /\ Stored("session")' # ""
             /\ Stored("temp_session")' = ""
             /\ Stored("phone_code_hash")' = "" ) ]_vars

\* A code login completed on the key and credentials of a code request.
C1_Witness ==
    /\ req.op = "sign_in" /\ resp.kind = "success" /\ req.mode = "code"
    /\ Stored("session") = "A_new"
    /\ Stored("api_id") = "2" /\ Stored("phone") = "+1"
    /\ Stored("temp_session") = "" /\ Stored("phone_code_hash") = ""

\* C2: after a successful disconnect the record has none of session,
\* temp_session, phone_code_hash and qr_temp_session.
C2_DisconnectClearsAll ==
    [][ (req'.op = "disconnect" /\ resp'.kind = "success")
        => \A k \in {"session", "temp_session", "phone_code_hash", "qr_temp_session"} :
              Stored(k)' = "" ]_vars

\* C3: after a successful import the record holds the imported session, the
\* supplied api_id and api_hash, the identity's phone, and none of
\* temp_session, phone_code_hash and qr_temp_session.
C3_ImportSupersedes ==
    [][ (req'.op = "import_session" /\ resp'.kind = "success")
        => ( /\ Stored("session")' = req'.session_string
             /\ Stored("api_id")' = req'.api_id
             /\ Stored("api_hash")' = req'.api_hash
             /\ Stored("phone")' = MePhone
             /\ \A k \in {"temp_session", "phone_code_hash", "qr_temp_session"} :
                   Stored(k)' = "" ) ]_vars

\* C4: an import that fails (rejected input, failed connection, session not
\* authorized) leaves the local file as it was and starts no backup push.
C4_FailedImportWritesNothing ==
    [][ (req'.op = "import_session" /\ resp'.kind \in {"error", "bad_request"})
        => (file' = file /\ remote' = remote /\ pushed' = 0) ]_vars

\* An import refused after validation, with a code login in flight.
C4_Witness ==
    /\ req.op = "import_session" /\ resp.kind = "error" /\ opened = 1
    /\ Stored("temp_session") # "" /\ Stored("phone_code_hash") # ""

\* C5 (amended): the stored session is absent or an authorized key, and a
\* step gives it a new value only if it is a successful sign-in, QR check,
\* QR password confirmation or import, or if its _load_session restores the
\* record of the backup.
C5_SessionFromAuthOrRestore ==
    /\ [](Stored("session") \in {""} \cup AuthBlobs)
    /\ [][ (Stored("session")' \notin {"", Stored("session")})
           => \/ ( /\ req'.op \in {"sign_in", "qr_check", "qr_2fa", "import_session"}
                   /\ resp'.kind = "success" )
              \/ ( /\ Restores
                   /\ Stored("session")' = Get(remote[1], "session") ) ]_vars

\* C5 (as stated): the stored session is absent or an authorized key, and a
\* step gives it a new value only if it is a successful sign-in, QR check,
\* QR password confirmation or import.
C5_SessionFromAuthOnly ==
    /\ [](Stored("session") \in {""} \cup AuthBlobs)
    /\ [][ (Stored("session")' \notin {"", Stored("session")})
           => ( /\ req'.op \in {"sign_in", "qr_check", "qr_2fa", "import_session"}
                /\ resp'.kind = "success" ) ]_vars

\* A request that authenticates nothing has put a session into the file.
C5_Witness ==
    /\ req.op = "qr_2fa" /\ resp.kind = "not_started"
    /\ pulled = "answered"
    /\ Stored("session") = "A_old"

\* C6 (amended): _load_session on a local record without session returns
\* that record and leaves the file alone, unless it is the load that pulls
\* the backup and the backup answers with a record: then it returns the
\* backup's record and writes it over the local one.
C6_PartialUnlessRestored ==
    [][ (req'.op = "health" /\ file # <<>> /\ Stored("session") = "")
        => IF Restores
           THEN loaded' = <<remote[1]>> /\ file' = remote
           ELSE loaded' = <<file[1]>> /\ file' = file ]_vars

\* C6 (as stated): _load_session on a local record without session returns
\* that record and leaves the file alone.
C6_PartialAlways ==
    [][ (req'.op = "health" /\ file # <<>> /\ Stored("session") = "")
        => (loaded' = <<file[1]>> /\ file' = file) ]_vars

\* The backup answered the pull with nothing, and the load returned the
\* local record of a login in flight.
C6_Witness ==
    /\ req.op = "health" /\ pulled = "answered"
    /\ file # <<>> /\ loaded = <<file[1]>>
    /\ Stored("session") = "" /\ Stored("temp_session") # ""

\* C7: the backup is queried at most once, and never again after the first
\* attempt, whatever that attempt brought and whatever happens to the file.
C7_PullAtMostOnce ==
    [][ pulls' <= 1 /\ (pa_restore_attempted => pulls' = pulls) ]_vars

\* A load that found no local file after the one pull was spent.
C7_Witness ==
    /\ req.op = "health" /\ pa_restore_attempted /\ pulls = 1
    /\ pulled = "none"
    /\ file = <<>> /\ loaded = <<EmptyRec>>

\* C8: _load_session without a local file, before any pull, with the backup
\* answering and holding a record with a session, returns that record and
\* leaves the local file holding it.
C8_RestoreFromBackup ==
    [][ ( /\ req'.op = "health" /\ file = <<>> /\ ~pa_restore_attempted
          /\ pulled' = "answered"
          /\ remote # <<>> /\ Get(remote[1], "session") # "" )
        => (loaded' = <<remote[1]>> /\ file' = remote) ]_vars

\* A load that returned the backup's record and mirrored it.
C8_Witness ==
    /\ req.op = "health" /\ pulled = "answered" /\ pulls = 1
    /\ file # <<>> /\ loaded = file
    /\ Stored("session") = "A_old" /\ resp.session_present

\* C9 (amended): a sign-in whose loaded record lacks temp_session or
\* phone_code_hash is answered with the sequencing error, opens no
\* connection and starts no push; the local file stays as it was, unless the
\* request's _load_session restored the backup's record over it.
C9_SignInBeforeCodeOrRestore ==
    [][ ( /\ req'.op = "sign_in" /\ resp'.kind # "unauthorized"
          /\ \/ Get(FirstLoad, "temp_session") = ""
             \/ Get(FirstLoad, "phone_code_hash") = "" )
        => ( /\ resp'.kind = "not_started"
             /\ opened' = 0 /\ pushed' = 0
             /\ file' = IF Restores THEN remote ELSE file ) ]_vars

\* C9 (as stated): a sign-in whose loaded record lacks temp_session or
\* phone_code_hash is answered with the sequencing error, opens no
\* connection, and the local file is the same after the call as before.
C9_SignInBeforeCode ==
    [][ ( /\ req'.op = "sign_in" /\ resp'.kind # "unauthorized"
          /\ \/ Get(FirstLoad, "temp_session") = ""
             \/ Get(FirstLoad, "phone_code_hash") = "" )
        => ( /\ resp'.kind = "not_started"
             /\ opened' = 0 /\ pushed' = 0
             /\ file' = file ) ]_vars

\* A sign-in refused for want of a code request, with no pull in it.
C9_Witness ==
    /\ req.op = "sign_in" /\ resp.kind = "not_started" /\ req.mode = "code"
    /\ pulled = "none" /\ opened = 0
    /\ Stored("api_id") # "" /\ Stored("temp_session") = ""

\* C10: a sign-in answered need_2fa stores the connection state that awaits
\* the password in temp_session and keeps phone_code_hash; a sign-in with
\* the password right after it either succeeds, leaving a non-empty session
\* and neither temp_session nor phone_code_hash, or fails and leaves the
\* file as it was.
C10_SecondFactor ==
    [][ /\ (req'.op = "sign_in" /\ resp'.kind = "need_2fa")
           => ( /\ req'.mode = "code"
                /\ Stored("temp_session")'
                     = SessionSave(Get(FirstLoad, "temp_session"), "password_needed")
                /\ Stored("phone_code_hash")' = Get(FirstLoad, "phone_code_hash")
                /\ Stored("phone_code_hash")' # ""
                /\ Stored("session")' = Get(FirstLoad, "session") )
        /\ ( /\ req.op = "sign_in" /\ resp.kind = "need_2fa"
             /\ req'.op = "sign_in" /\ resp'.kind # "unauthorized"
             /\ req'.mode = "password" )
           => \/ ( /\ resp'.kind = "success"
                   /\ Stored("session")' # ""
                   /\ Stored("temp_session")' = ""
                   /\ Stored("phone_code_hash")' = "" )
              \/ ( /\ resp'.kind = "error"
                   /\ file' = file ) ]_vars

\* A login completed with the password on the key that awaited it.
C10_Witness ==
    /\ req.op = "sign_in" /\ resp.kind = "success" /\ req.mode = "password"
    /\ Stored("session") = "A_new"
    /\ Stored("temp_session") = "" /\ Stored("phone_code_hash") = ""

\* C11: a sign-in, QR check or QR password confirmation that succeeds writes
\* a record with none of temp_session, phone_code_hash and qr_temp_session.
C11_PromotionClearsAllTransients ==
    [][ ( /\ req'.op \in {"sign_in", "qr_check", "qr_2fa"}
          /\ resp'.kind = "success" )
        => \A k \in {"temp_session", "phone_code_hash", "qr_temp_session"} :
              Stored(k)' = "" ]_vars

\* C12: every connection that a send-code, sign-in, QR start, QR check, QR
\* password or import call opened is closed again when the call returns.
C12_AuthFlowsReleaseConnections ==
    [][ req'.op \in {"send_code", "sign_in", "import_session",
                     "qr_start", "qr_check", "qr_2fa"}
        => released' = opened' ]_vars

\* C13: every connection that a status, get-star-gifts or send-gift call
\* opened is closed again when the call returns, whatever its outcome.
C13_ExecutorReleasesConnections ==
    [][ req'.op \in {"status", "get_star_gifts", "send_gift"}
        => released' = opened' ]_vars

\* The last request was a send-gift call that went on to _send.
GiftValidated == req.op = "send_gift" /\ resp.kind \in {"success", "error", "gift_invalid"}

\* The fetched gift list has an entry with the requested id.
GiftListed ==
    /\ resp.catalog # <<>>
    /\ \E i \in 1..Len(resp.catalog[1]) :
          IsInt(req.gift_id) /\ resp.catalog[1][i].id = IntOf(req.gift_id)

\* The fetched gift list has an entry with the requested id that is on sale.
GiftOnSale ==
    /\ resp.catalog # <<>>
    /\ \E i \in 1..Len(resp.catalog[1]) :
          /\ IsInt(req.gift_id)
          /\ resp.catalog[1][i].id = IntOf(req.gift_id)
          /\ ~resp.catalog[1][i].sold_out

\* C14: send-gift requests the payment form, or confirms the payment, only
\* for a gift_id that the catalog fetched in the same call lists as not sold
\* out.
C14_PaymentOnlyForGiftOnSale ==
    [][ ( /\ GiftValidated'
          /\ (resp'.form \/ resp'.confirm) )
        => GiftOnSale' ]_vars

\* C15: send-gift with a gift_id that the catalog fetched in the same call
\* does not list neither requests the payment form nor confirms a payment,
\* and when that catalog has an entry that is not sold out, the error names
\* the id of such an entry.
C15_AbsentGiftNamesAlternative ==
    [][ ( /\ GiftValidated'
          /\ resp'.catalog # <<>>
          /\ ~GiftListed' )
        => /\ ~resp'.form
           /\ ~resp'.confirm
           /\ LET list == resp'.catalog[1]
                  sale == { list[i].id : i \in { j \in 1..Len(list) :
                                                   ~list[j].sold_out } }
              IN sale # {} => resp'.named \cap sale # {} ]_vars

\* C16: a request other than /health that does not carry the configured
\* secret is answered "unauthorized" and nothing else happens: the local
\* file, the backup and the restore flag are as before, no query went to the
\* backup endpoint, no backup thread was started, no connection was opened.
C16_SecretCheckedFirst ==
    [][ ( /\ req'.op \in {"status", "send_code", "sign_in", "import_session",
                          "qr_start", "qr_check", "qr_2fa", "disconnect",
                          "get_star_gifts", "send_gift"}
          /\ ~secret_ok' )
        => /\ resp'.kind = "unauthorized"
           /\ UNCHANGED <<file, remote, pa_restore_attempted, pulls>>
           /\ pulled' = "none"
           /\ pushed' = 0
           /\ opened' = 0 ]_vars

\* A request with a wrong secret was turned away in a state where a load
\* would have pulled the backup.
C16_Witness ==
    /\ req.op = "send_gift"
    /\ ~secret_ok
    /\ resp.kind = "unauthorized"
    /\ BackupEnabled(RELAY_SECRET)
    /\ ~pa_restore_attempted
    /\ Stored("session") = ""
    /\ remote # <<>>

\* C17: status, get-star-gifts and send-gift, when the record they load has
\* no session, answer "not connected" / "not configured" and open no
\* connection.
C17_NoSessionNoConnection ==
    [][ ( /\ req'.op \in {"status", "get_star_gifts", "send_gift"}
          /\ resp'.kind \notin {"unauthorized", "bad_request"}
          /\ Get(FirstLoad, "session") = "" )
        => /\ opened' = 0
           /\ IF req'.op = "status"
              THEN resp'.kind = "status" /\ ~resp'.connected
              ELSE resp'.kind = "not_configured" ]_vars

\* A send-gift call found credentials but no session in the record.
C17_Witness ==
    /\ req.op = "send_gift"
    /\ resp.kind = "not_configured"
    /\ Stored("session") = ""
    /\ Stored("api_id") # ""
    /\ Stored("api_hash") # ""
    /\ opened = 0

\* The last request was a QR poll / QR password call that reached the
\* platform.
QrAnswered(op) == req.op = op /\ resp.kind \notin {"unauthorized", "bad_request", "not_started"}
                  /\ "ans" \in DOMAIN req

\* C19 (amended): a QR poll that the platform answers with a fresh token
\* returns "waiting" with that token and stores the connection state of the
\* poll as qr_temp_session, with the session the poll's _load_session
\* returned (the backup's, if that load restored it); a QR poll that the
\* platform answers with the finished login stores a non-empty session and no
\* qr_temp_session.
C19_PollReissuesOrPromotes ==
    [][ /\ ( QrAnswered("qr_check")' /\ req'.ans = "token" )
           => /\ resp'.kind = "waiting" /\ resp'.token
              /\ Stored("qr_temp_session")'
                    = SessionSave(Get(FirstLoad, "qr_temp_session"), "qr_token")
              /\ Stored("session")' = Get(FirstLoad, "session")
        /\ ( QrAnswered("qr_check")' /\ req'.ans \in {"success", "migrate_success"} )
           => /\ resp'.kind = "success"
              /\ Stored("session")' # ""
              /\ Stored("qr_temp_session")' = "" ]_vars

\* C19 (as stated): the same, with the session in the local file left as it
\* was before the poll.
C19_PollLeavesSession ==
    [][ /\ ( QrAnswered("qr_check")' /\ req'.ans = "token" )
           => /\ resp'.kind = "waiting" /\ resp'.token
              /\ Stored("qr_temp_session")'
                    = SessionSave(Stored("qr_temp_session"), "qr_token")
              /\ Stored("session")' = Stored("session")
        /\ ( QrAnswered("qr_check")' /\ req'.ans \in {"success", "migrate_success"} )
           => /\ resp'.kind = "success"
              /\ Stored("session")' # ""
              /\ Stored("qr_temp_session")' = "" ]_vars

\* A poll got a fresh token for a login that /qr-login/start had begun: the
\* stored connection state is now the poll's.
C19_Witness ==
    /\ QrAnswered("qr_check") /\ req.ans = "token"
    /\ resp.token
    /\ Stored("qr_temp_session") = "Q_poll"
    /\ Stored("session") = ""

\* C20 (amended): a QR password call that the platform answers with "password
\* invalid" returns the invalid-password error and saves nothing: the local
\* file is as before, or holds the backup's record if the call's
\* _load_session restored it; qr_temp_session is still stored, and a next QR
\* password call that the platform accepts stores a session and no
\* qr_temp_session.
C20_WrongPasswordRetryable ==
    /\ [][ ( QrAnswered("qr_2fa")' /\ req'.ans = "password_invalid" )
           => /\ resp'.kind = "invalid_password"
              /\ file' = (IF Restores THEN remote ELSE file)
              /\ pushed' = 0
              /\ Stored("qr_temp_session")' # ""
              /\ Stored("qr_temp_session")' = Get(FirstLoad, "qr_temp_session") ]_vars
    /\ [][ ( /\ QrAnswered("qr_2fa") /\ req.ans = "password_invalid"
             /\ QrAnswered("qr_2fa")' /\ req'.ans = "ok" )
           => /\ resp'.kind = "success"
              /\ Stored("session")' # ""
              /\ Stored("qr_temp_session")' = "" ]_vars

\* C20 (as stated): the same, with the local file after a refused password
\* the same as before the call.
C20_WrongPasswordWritesNothing ==
    /\ [][ ( QrAnswered("qr_2fa")' /\ req'.ans = "password_invalid" )
           => /\ resp'.kind = "invalid_password"
              /\ file' = file
              /\ pushed' = 0
              /\ Stored("qr_temp_session")' # "" ]_vars
    /\ [][ ( /\ QrAnswered("qr_2fa") /\ req.ans = "password_invalid"
             /\ QrAnswered("qr_2fa")' /\ req'.ans = "ok" )
           => /\ resp'.kind = "success"
              /\ Stored("session")' # ""
              /\ Stored("qr_temp_session")' = "" ]_vars

\* A password was refused for a QR login that awaits one: the key that
\* awaits the password is still stored.
C20_Witness ==
    /\ QrAnswered("qr_2fa") /\ req.ans = "password_invalid"
    /\ resp.kind = "invalid_password"
    /\ Stored("qr_temp_session") = "Q_2fa"
    /\ Stored("session") = ""

\* C18: every save of a request starts one backup thread when the record it
\* writes has a session and none when it has not; the thread carries the
\* record just written and is still running when the request has its
\* response; and when a thread ends, whether its push arrived or failed, the
\* local file and the response of the request stay as they are.
C18_SavePushesWithoutWaiting ==
    /\ [](pushed = IF Stored("session") # "" THEN saved ELSE 0)
    /\ [][ Len(pushing') >= Len(pushing)
           => /\ Len(pushing') = Len(pushing) + pushed'
              /\ \A i \in 1..Len(pushing) : pushing'[i] = pushing[i]
              /\ pushed' > 0 => pushing'[Len(pushing')] = file'[1]
              /\ remote' \in {remote, <<>>} ]_vars
    /\ [][ Len(pushing') < Len(pushing)
           => UNCHANGED <<file, req, resp, opened, released, pushed, saved>> ]_vars

\* An import was answered with success and wrote the session to the file;
\* its backup thread has ended since without reaching the endpoint.
C18_Witness ==
    /\ req.op = "import_session" /\ resp.kind = "success"
    /\ saved = 1 /\ pushed = 1
    /\ pushing = <<>>
    /\ BackupEnabled(RELAY_SECRET)
    /\ ~pa_restore_attempted
    /\ Stored("session") = "A_imp"
    /\ remote # file

\* C21 (amended): a send-code call with well-formed input saves api_id,
\* api_hash and phone before it builds a client, so they are stored however
\* the connection and the code request end; when these fail, the stored
\* phone_code_hash and temp_session are the ones the call's first
\* _load_session returned (the local ones, or the backup's if that load
\* restored the backup's record).
C21_CredentialsSavedFirstOrRestore ==
    [][ ( /\ req'.op = "send_code"
          /\ resp'.kind \in {"success", "error"} )
        => /\ saved' >= 1
           /\ Stored("api_id")' = req'.api_id
           /\ Stored("api_hash")' = req'.api_hash
           /\ Stored("phone")' = req'.phone
           /\ resp'.kind = "error"
              => /\ Stored("phone_code_hash")' = Get(FirstLoad, "phone_code_hash")
                 /\ Stored("temp_session")' = Get(FirstLoad, "temp_session") ]_vars

\* C21 (as stated): the same, with the stored phone_code_hash and
\* temp_session after a failed call the same as before the call.
C21_CredentialsSavedFirst ==
    [][ ( /\ req'.op = "send_code"
          /\ resp'.kind \in {"success", "error"} )
        => /\ saved' >= 1
           /\ Stored("api_id")' = req'.api_id
           /\ Stored("api_hash")' = req'.api_hash
           /\ Stored("phone")' = req'.phone
           /\ resp'.kind = "error"
              => /\ Stored("phone_code_hash")' = Stored("phone_code_hash")
                 /\ Stored("temp_session")' = Stored("temp_session") ]_vars

\* A code request was refused by the platform while an earlier one was
\* pending: the new credentials are stored beside the earlier pair.
C21_Witness ==
    /\ req.op = "send_code" /\ resp.kind = "error"
    /\ req.ans = "send_fail"
    /\ pulled = "none"
    /\ Stored("api_id") = "2" /\ Stored("api_hash") = "h2"
    /\ Stored("temp_session") = "T_sent"
    /\ Stored("phone_code_hash") = "h_new"

\* C22: when a send-code call took the resend path and that path failed
\* (reconnecting with the stored temp_session, or the resend request), the
\* same call requests a new code, and the pair stored at the end is the one
\* of the request that succeeded.
C22_ResendFailureFallsBack ==
    [][ ( /\ req'.op = "send_code"
          /\ resp'.kind \in {"success", "error"} )
        => /\ resp'.resend = "fail" => resp'.fresh # "no"
           /\ (resp'.resend = "fail" /\ resp'.fresh = "ok")
              => /\ resp'.kind = "success"
                 /\ Stored("phone_code_hash")' = "h_new"
                 /\ Stored("temp_session")'
                      = SessionSave(Get(FirstLoad, "session"), "code_sent")
           /\ resp'.resend = "ok"
              => /\ resp'.kind = "success"
                 /\ Stored("phone_code_hash")' = "h_resend"
                 /\ Stored("temp_session")'
                      = SessionSave(Get(FirstLoad, "temp_session"), "code_resent") ]_vars

\* C23: get-star-gifts answers a record with a session for which no client
\* can be built with a configuration error, and a session that the platform
\* no longer authorizes with a session-expired error, so that the two
\* failures can be told apart.
C23_FetchFailuresDistinguishable ==
    [][ ( /\ req'.op = "get_star_gifts"
          /\ resp'.kind = "error" )
        => /\ req'.ans = "no_client" => resp'.error = "client_not_created"
           /\ req'.ans = "not_authorized" => resp'.error = "session_expired" ]_vars

C26_NoSessionAfterDisconnect ==
    [][ ( /\ req.op = "disconnect" /\ resp.kind = "success"
          /\ ~( /\ req'.op \in {"sign_in", "import_session", "qr_check", "qr_2fa"}
                /\ resp'.kind = "success" ) )
        => /\ Stored("session")' = ""
           /\ req'.op = "health"
              => loaded' # <<>> /\ Get(loaded'[1], "session") = "" ]_vars

\* C27: when the last running backup thread has delivered its record, and
\* all before it delivered theirs, the backup holds the record of the most
\* recent _save_session with a session, which is the one the local file
\* holds as long as that file has a session.
C27_BackupHoldsLatestSave ==
    [][ ( /\ pushing # <<>> /\ pushing' = <<>>
          /\ BackupEnabled(RELAY_SECRET)
          /\ ~pa_restore_attempted'
          /\ Stored("session")' # "" )
        => remote' = file' ]_vars

\* C28: the credentials stored beside a session are those the session was
\* authenticated under: a step that keeps the stored session, and is not
\* itself a successful sign-in, import or QR login, keeps the stored api_id
\* and api_hash.
C28_CredentialsStayWithSession ==
    [][ ( /\ Stored("session") # ""
          /\ Stored("session")' = Stored("session")
          /\ ~( /\ req'.op \in {"sign_in", "import_session", "qr_check", "qr_2fa"}
                /\ resp'.kind = "success" ) )
        => /\ Stored("api_id")' = Stored("api_id")
           /\ Stored("api_hash")' = Stored("api_hash") ]_vars

\* The record _load_session would return now, the backup endpoint answering
\* (net) or not.
LoadNow(net) == LoadSession(Store, net).data

\* C29: health, status, get-star-gifts and send-gift call _save_session on
\* no path and start no backup thread; whatever their outcome, the record
\* _load_session returns after the call is the record it returned to the
\* call, and a call turned away before it loads leaves the local file, the
\* backup and the restore flag as they were.
C29_ExecutorCallsSaveNothing ==
    [][ req'.op \in {"health", "status", "get_star_gifts", "send_gift"}
        => /\ saved' = 0
           /\ pushed' = 0
           /\ pushing' = pushing
           /\ IF resp'.kind \in {"unauthorized", "bad_request"}
              THEN UNCHANGED <<file, remote, pa_restore_attempted>>
              ELSE /\ \A net \in BOOLEAN : LoadNow(net)' = FirstLoad
                   /\ req'.op = "health" => loaded' = <<FirstLoad>> ]_vars

\* A status call found the account connected on the record that its load
\* had restored from the backup, and saved nothing.
C29_Witness ==
    /\ req.op = "status" /\ resp.kind = "status" /\ resp.connected
    /\ pulled = "answered"
    /\ saved = 0 /\ pushed = 0
    /\ Stored("session") = "A_old"

\* C25: load, change and save of a request are separate steps, and the save
\* writes the whole record as the request loaded it: the fields the request
\* does not set get the values of its own load, and the session gets the
\* value the request gives it, whatever another request has written to the
\* file since that load.
C25_SaveWritesOwnLoad ==
    [][ \A t \in Slots :
          ( inflight[t].pc = "loaded" /\ inflight'[t].pc = "done" )
          => /\ \A k \in {"api_id", "api_hash", "phone", "qr_temp_session"} :
                   Stored(k)' = Get(inflight[t].data, k)
             /\ Stored("session")'
                  = IF inflight[t].op = "disconnect" THEN ""
                    ELSE IF inflight[t].kind = "success" THEN inflight[t].blob
                    ELSE Get(inflight[t].data, "session")
             /\ Stored("phone_code_hash")'
                  = IF inflight[t].kind = "need_2fa"
                    THEN Get(inflight[t].data, "phone_code_hash") ELSE "" ]_vars

\* A disconnect has returned success, and the sign-in that ran beside it has
\* then saved the record it had loaded before the disconnect's save: the
\* session is stored although the disconnect was the later call to load.
C25_Witness ==
    \E d \in Slots, s \in Slots :
      /\ inflight[d].op = "disconnect" /\ inflight[d].pc = "done"
      /\ inflight[s].op = "sign_in" /\ inflight[s].pc = "done"
      /\ inflight[s].kind = "success"
      /\ req.op = "sign_in" /\ resp.kind = "success"
      /\ Get(inflight[s].data, "temp_session") # ""
      /\ Get(inflight[s].data, "session") = ""
      /\ Stored("session") = inflight[s].blob
      /\ Stored("session") # ""

====
